---- MODULE Spec2Model ----
(***************************************************************************)
(* The watchlist scanner of trader_bot.py (check_market_news and the       *)
(* helpers it calls) and the message sender of instant_analyst.py.         *)
(*                                                                         *)
(* A run of check_market_news is a process p: it loads the memory file,    *)
(* walks the watchlist, examines up to three entries per feed and saves    *)
(* the memory file at the end.  Processes share only the memory file.      *)
(* Time is counted in half seconds (time.sleep(1.5) is 3 ticks).           *)
(***************************************************************************)
EXTENDS Integers, Sequences, FiniteSets, TLC

VARIABLES
    watchlist,      \* the lines of watchlist.txt
    CHAT_ID,        \* the TELEGRAM_CHAT_ID environment variable, a string
    news,           \* the entries the news feed may return
    file,           \* news_memory.json
    pc,             \* per run: where check_market_news stands
    stocks,         \* per run: the watchlist as read at the start
    idx,            \* per run: position in stocks of the entry being handled
    remaining,      \* per run: entries of feed.entries[:3] not yet examined
    entry,          \* per run: the entry the inner loop is handling
    seen_news,      \* per run: the in-memory seen-set
    initial_count,  \* per run: len(seen_news) right after load_memory
    elapsed,        \* per run: time.time() - start_time, in ticks
    added,          \* per run: the fingerprints seen_news.add received, in order
    alerted,        \* fingerprints for which send_telegram was ever called
    realerted,      \* fingerprints for which it was called more than once
    runs_left,      \* how many more runs may start
    out             \* what the latest step did: API call, verdict, posts made

vars == <<watchlist, CHAT_ID, news, file, pc, stocks, idx, remaining, entry,
          seen_news, initial_count, elapsed, added, alerted, realerted, runs_left, out>>

(* ------------------------------ bounds --------------------------------- *)
MaxLines == 3
MaxEntries == 4
MaxRuns == 1

(* -------------------------- program constants -------------------------- *)
TicksPerSecond == 2
TimeLimit == 270
MaxAgeHours == 24
TopEntries == 3
TitlePrefix == 40
MemoryLimit == 2000
SleepTicks == 3
chunk_size == 4000

Procs == {1, 2}

(* ------------------------------ helpers -------------------------------- *)
Min(a, b) == IF a < b THEN a ELSE b

Max(a, b) == IF a > b THEN a ELSE b

Range(s) == {s[k] : k \in 1..Len(s)}

(* s[:n] of Python *)
Take(s, n) == SubSeq(s, 1, Min(n, Len(s)))

(* ---------------------------- str.strip -------------------------------- *)
RECURSIVE lstrip(_)
lstrip(s) == IF s # <<>> /\ Head(s) = " " THEN lstrip(Tail(s)) ELSE s

RECURSIVE rstrip(_)
rstrip(s) ==
    IF s # <<>> /\ s[Len(s)] = " " THEN rstrip(SubSeq(s, 1, Len(s) - 1)) ELSE s

strip(s) == lstrip(rstrip(s))

(* ---------------------------- str.split(',') --------------------------- *)
RECURSIVE split(_)
split(s) ==
    IF \E k \in 1..Len(s) : s[k] = ","
    THEN LET k == CHOOSE j \in 1..Len(s) :
                      s[j] = "," /\ \A m \in 1..(j - 1) : s[m] # ","
         IN  <<SubSeq(s, 1, k - 1)>> \o split(SubSeq(s, k + 1, Len(s)))
    ELSE <<s>>

(* ----------------------------- inputs ---------------------------------- *)
TCS == <<"T", "C", "S">>
INFY == <<"I", "N", "F", "Y">>
Blank == <<" ">>

(* watchlist.txt holds the first lines of this list *)
WatchFile == [k \in 1..MaxLines |-> CASE k % 3 = 1 -> TCS
                                       [] k % 3 = 2 -> Blank
                                       [] OTHER -> INFY]

Watchlists == {SubSeq(WatchFile, 1, n) : n \in 0..MaxLines}

ChatIds == { <<"1">>, <<"1", ",", " ", "2">> }

(* stocks = [line.strip() for line in f if line.strip()] *)
ReadWatchlist(lines) ==
    LET stripped == [k \in 1..Len(lines) |-> strip(lines[k])]
        NonBlank(l) == l # <<>>
    IN  SelectSeq(stripped, NonBlank)

ShortTitle == <<"w", "i", "n">>
LongTitleA == [k \in 1..(TitlePrefix + 1) |-> IF k <= TitlePrefix THEN "x" ELSE "a"]
LongTitleB == [k \in 1..(TitlePrefix + 2) |-> IF k <= TitlePrefix THEN "x" ELSE "b"]

Titles == {ShortTitle, LongTitleA, LongTitleB}

(* published_parsed: absent, present but unusable, or an age in seconds *)
Absent == -1
Unusable == -2
Ages == {MaxAgeHours * 3600, MaxAgeHours * 3600 + 1}

Entries ==
    [has_title : {TRUE}, has_link : {TRUE}, title : Titles,
     published : Ages \cup {Absent}]
    \cup {[has_title |-> FALSE, has_link |-> TRUE, title |-> <<>>, published |-> Absent],
          [has_title |-> TRUE, has_link |-> FALSE, title |-> ShortTitle, published |-> Absent],
          [has_title |-> TRUE, has_link |-> TRUE, title |-> ShortTitle, published |-> Unusable]}

NoEntry == [has_title |-> FALSE, has_link |-> FALSE, title |-> <<>>, published |-> Absent]

FetchDelays == {0, TimeLimit * TicksPerSecond}

(* the generation API either raises or returns a text *)
ApiReplies == {[raised |-> FALSE, text |-> "Signal: BUY | Confidence: High | Why: big order"],
               [raised |-> TRUE, text |-> ""]}

(* requests.post returns a status or raises *)
PostResults == {"200", "400", "raised"}

(* -------------------------- memory store ------------------------------- *)
(* A seen-set or a memory file holds named fingerprints (ids) and pad      *)
(* further ones that no feed entry of the model maps to.                   *)
Size(m) == m.pad + Cardinality(m.ids)

EmptyMemory == [pad |-> 0, ids |-> {}]


(* load_memory: set(json.load(f)), or set() on any failure *)
load_memory(f) == IF f.ok THEN [pad |-> f.pad, ids |-> f.ids] ELSE EmptyMemory

(* a save that first reads the file and keeps what it holds *)
save_memory_merging(memory_set) ==
    {[ok |-> TRUE, pad |-> Max(memory_set.pad, load_memory(file).pad),
      ids |-> memory_set.ids \cup load_memory(file).ids]}

(* save_memory: list(memory_set)[-2000:].  A set iterates in hash order,   *)
(* so any Size - 2000 of its elements may be the ones left out.            *)
save_memory(memory_set) ==
    LET d == Max(0, Size(memory_set) - MemoryLimit)
    IN  {[ok |-> TRUE, pad |-> memory_set.pad - (d - Cardinality(D)),
          ids |-> memory_set.ids \ D] :
            D \in {X \in SUBSET memory_set.ids :
                      Cardinality(X) <= d /\ d - Cardinality(X) <= memory_set.pad}}

(* ------------------------- the scan's helpers -------------------------- *)
(* news_id = f"{stock}_{title[:40]}" *)
news_id(stock, title) == stock \o <<"_">> \o Take(title, TitlePrefix)

(* a threshold of 48 hours *)
TooOld_48h(age_seconds) == age_seconds > 2 * MaxAgeHours * 3600

(* age_hours > 24, age_hours = total_seconds() / 3600 *)
TooOld(age_seconds) == age_seconds > MaxAgeHours * 3600

(* a scan that never finds an entry in its memory *)
InMemory_never(id, memory_set) == FALSE

(* news_id in seen_news *)
InMemory(id, memory_set) == id \in memory_set.ids

Sentinel == "Signal: HOLD | Confidence: Low | Why: Error"

(* a get_ai_signal whose failure yields no verdict *)
get_ai_signal_unguarded(reply) == reply.text

(* lines 33-47: the reply's text, or the sentinel when the call raises *)
get_ai_signal(reply) == IF reply.raised THEN Sentinel ELSE reply.text

Message(stock, ai_verdict, e) ==
    [stock |-> stock, verdict |-> ai_verdict, title |-> e.title]

(* a sender that gives up at the first post that raises *)
send_telegram_stops(message, results) ==
    LET ids == split(CHAT_ID)
        ok(k) == \A j \in 1..(k - 1) : results[j] # "raised"
        n == Cardinality({k \in 1..Len(ids) : ok(k)})
    IN  [k \in 1..n |->
            [chat_id |-> strip(ids[k]), text |-> message,
             parse_mode |-> "Markdown", result |-> results[k]]]

(* trader_bot.send_telegram: one Markdown post per id, whatever came before *)
send_telegram(message, results) ==
    LET ids == split(CHAT_ID)
    IN  [k \in 1..Len(ids) |->
            [chat_id |-> strip(ids[k]), text |-> message,
             parse_mode |-> "Markdown", result |-> results[k]]]

(* what was asked of the push-message API, without the answers *)
Requests(posts) ==
    [k \in 1..Len(posts) |->
        [chat_id |-> posts[k].chat_id, text |-> posts[k].text,
         parse_mode |-> posts[k].parse_mode]]

NoOut ==
    [kind |-> "none", proc |-> 0, api_called |-> FALSE, api_raised |-> FALSE,
     verdict |-> "", posts |-> <<>>]

Step(kind, p) == [NoOut EXCEPT !.kind = kind, !.proc = p]

(* ------------------------------- Init ---------------------------------- *)
(* news_memory.json before the first run: unreadable, or a list that an    *)
(* earlier save wrote, of MemoryLimit entries or one less, one of them     *)
(* the fingerprint of a headline the feed can still return                 *)
InitialFiles ==
    {[ok |-> TRUE, pad |-> n - 1, ids |-> {news_id(TCS, ShortTitle)}] :
        n \in {MemoryLimit - 1, MemoryLimit}}
    \cup {[ok |-> FALSE, pad |-> 0, ids |-> {}]}

Init ==
    /\ watchlist \in Watchlists
    /\ CHAT_ID \in ChatIds
    /\ news = Entries
    /\ file \in InitialFiles
    /\ pc = [p \in Procs |-> IF p = 1 THEN "idle" ELSE "off"]
    /\ stocks = [p \in Procs |-> <<>>]
    /\ idx = [p \in Procs |-> 1]
    /\ remaining = [p \in Procs |-> 0]
    /\ entry = [p \in Procs |-> NoEntry]
    /\ seen_news = [p \in Procs |-> EmptyMemory]
    /\ initial_count = [p \in Procs |-> 0]
    /\ elapsed = [p \in Procs |-> 0]
    /\ added = [p \in Procs |-> <<>>]
    /\ alerted = {}
    /\ realerted = {}
    /\ runs_left = MaxRuns
    /\ out = NoOut

(* ------------------------ check_market_news ---------------------------- *)
(* lines 64-70: read the watchlist, load the memory, start the timer *)
Start(p) ==
    /\ pc[p] \in {"idle", "done", "crashed"}
    /\ runs_left > 0
    /\ runs_left' = runs_left - 1
    /\ stocks' = [stocks EXCEPT ![p] = ReadWatchlist(watchlist)]
    /\ seen_news' = [seen_news EXCEPT ![p] = load_memory(file)]
    /\ initial_count' = [initial_count EXCEPT ![p] = Size(load_memory(file))]
    /\ elapsed' = [elapsed EXCEPT ![p] = 0]
    /\ idx' = [idx EXCEPT ![p] = 1]
    /\ remaining' = [remaining EXCEPT ![p] = 0]
    /\ entry' = [entry EXCEPT ![p] = NoEntry]
    /\ added' = [added EXCEPT ![p] = <<>>]
    /\ pc' = [pc EXCEPT ![p] = "loop"]
    /\ out' = Step("start", p)
    /\ UNCHANGED <<watchlist, CHAT_ID, news, file, alerted, realerted>>

OverBudget(p) == elapsed[p] > TimeLimit * TicksPerSecond

(* the for loop has no entry left *)
Exhausted(p) ==
    /\ pc[p] = "loop"
    /\ idx[p] > Len(stocks[p])
    /\ pc' = [pc EXCEPT ![p] = "end"]
    /\ out' = Step("exhausted", p)
    /\ UNCHANGED <<watchlist, CHAT_ID, news, file, stocks, idx, remaining, entry,
                   seen_news, initial_count, elapsed, added, alerted, realerted, runs_left>>

(* lines 73-75: break *)
TimeLimitReached(p) ==
    /\ pc[p] = "loop"
    /\ idx[p] <= Len(stocks[p])
    /\ OverBudget(p)
    /\ pc' = [pc EXCEPT ![p] = "end"]
    /\ out' = Step("time_limit", p)
    /\ UNCHANGED <<watchlist, CHAT_ID, news, file, stocks, idx, remaining, entry,
                   seen_news, initial_count, elapsed, added, alerted, realerted, runs_left>>

(* lines 83-87: feedparser.parse raises; continue *)
FetchFailed(p) ==
    /\ pc[p] = "loop"
    /\ idx[p] <= Len(stocks[p])
    /\ ~OverBudget(p)
    /\ \E delay \in FetchDelays :
          elapsed' = [elapsed EXCEPT ![p] = @ + delay]
    /\ idx' = [idx EXCEPT ![p] = @ + 1]
    /\ out' = Step("fetch_failed", p)
    /\ UNCHANGED <<watchlist, CHAT_ID, news, file, pc, stocks, remaining, entry,
                   seen_news, initial_count, added, alerted, realerted, runs_left>>

(* lines 89-91: the feed has no entries; continue *)
NoNews(p) ==
    /\ pc[p] = "loop"
    /\ idx[p] <= Len(stocks[p])
    /\ ~OverBudget(p)
    /\ \E delay \in FetchDelays :
          elapsed' = [elapsed EXCEPT ![p] = @ + delay]
    /\ idx' = [idx EXCEPT ![p] = @ + 1]
    /\ out' = Step("no_news", p)
    /\ UNCHANGED <<watchlist, CHAT_ID, news, file, pc, stocks, remaining, entry,
                   seen_news, initial_count, added, alerted, realerted, runs_left>>

(* lines 84 and 93: the feed has entries; the loop takes feed.entries[:3] *)
FetchEntries(p) ==
    /\ pc[p] = "loop"
    /\ idx[p] <= Len(stocks[p])
    /\ ~OverBudget(p)
    /\ \E delay \in FetchDelays, n \in 1..MaxEntries :
          /\ elapsed' = [elapsed EXCEPT ![p] = @ + delay]
          /\ remaining' = [remaining EXCEPT ![p] = Min(n, TopEntries)]
    /\ pc' = [pc EXCEPT ![p] = "items"]
    /\ out' = Step("fetched", p)
    /\ UNCHANGED <<watchlist, CHAT_ID, news, file, stocks, idx, entry,
                   seen_news, initial_count, added, alerted, realerted, runs_left>>

(* the inner loop is over: next watchlist entry *)
NextStock(p) ==
    /\ pc[p] = "items"
    /\ remaining[p] = 0
    /\ idx' = [idx EXCEPT ![p] = @ + 1]
    /\ pc' = [pc EXCEPT ![p] = "loop"]
    /\ out' = Step("next_stock", p)
    /\ UNCHANGED <<watchlist, CHAT_ID, news, file, stocks, remaining, entry,
                   seen_news, initial_count, elapsed, added, alerted, realerted, runs_left>>

(* line 93: the inner loop binds its next entry.  An entry is read only    *)
(* here, so its content is drawn when the loop reaches it.                 *)
NextEntry(p) ==
    /\ pc[p] = "items"
    /\ remaining[p] > 0
    /\ \E e \in news : entry' = [entry EXCEPT ![p] = e]
    /\ remaining' = [remaining EXCEPT ![p] = @ - 1]
    /\ pc' = [pc EXCEPT ![p] = "entry"]
    /\ out' = Step("entry", p)
    /\ UNCHANGED <<watchlist, CHAT_ID, news, file, stocks, idx,
                   seen_news, initial_count, elapsed, added, alerted, realerted, runs_left>>

(* what raises at lines 94, 95 and 99, none of them inside a try *)
Raises(e) ==
    \/ ~e.has_title
    \/ ~e.has_link
    \/ e.published = Unusable

Fresh(e) == e.published = Absent \/ ~TooOld(e.published)

(* lines 94-99: reading entry.title or entry.link, or building the        *)
(* datetime from published_parsed, raises; nothing catches it and the     *)
(* run ends there                                                         *)
EntryRaises(p) ==
    /\ pc[p] = "entry"
    /\ Raises(entry[p])
    /\ pc' = [pc EXCEPT ![p] = "crashed"]
    /\ out' = Step("raised", p)
    /\ UNCHANGED <<watchlist, CHAT_ID, news, file, stocks, idx, remaining, entry,
                   seen_news, initial_count, elapsed, added, alerted, realerted, runs_left>>

(* lines 98-103: the age check; continue *)
SkipOld(p) ==
    /\ pc[p] = "entry"
    /\ ~Raises(entry[p])
    /\ ~Fresh(entry[p])
    /\ pc' = [pc EXCEPT ![p] = "items"]
    /\ entry' = [entry EXCEPT ![p] = NoEntry]
    /\ out' = Step("skip_old", p)
    /\ UNCHANGED <<watchlist, CHAT_ID, news, file, stocks, idx, remaining,
                   seen_news, initial_count, elapsed, added, alerted, realerted, runs_left>>

(* lines 106-109: the duplicate check; continue *)
SkipSeen(p) ==
    /\ pc[p] = "entry"
    /\ ~Raises(entry[p])
    /\ Fresh(entry[p])
    /\ InMemory(news_id(stocks[p][idx[p]], entry[p].title), seen_news[p])
    /\ pc' = [pc EXCEPT ![p] = "items"]
    /\ entry' = [entry EXCEPT ![p] = NoEntry]
    /\ out' = Step("skip_seen", p)
    /\ UNCHANGED <<watchlist, CHAT_ID, news, file, stocks, idx, remaining,
                   seen_news, initial_count, elapsed, added, alerted, realerted, runs_left>>

(* lines 111-126: ask the model, send the alert, remember *)
Process(p) ==
    /\ pc[p] = "entry"
    /\ ~Raises(entry[p])
    /\ Fresh(entry[p])
    /\ ~InMemory(news_id(stocks[p][idx[p]], entry[p].title), seen_news[p])
    /\ LET stock == stocks[p][idx[p]]
           id == news_id(stock, entry[p].title)
       IN  /\ \E reply \in ApiReplies,
                 results \in [1..Len(split(CHAT_ID)) -> PostResults] :
                 out' = [Step("processed", p) EXCEPT
                           !.api_called = TRUE,
                           !.api_raised = reply.raised,
                           !.verdict = get_ai_signal(reply),
                           !.posts = Requests(send_telegram(
                               Message(stock, get_ai_signal(reply), entry[p]),
                               results))]
           /\ seen_news' = [seen_news EXCEPT ![p].ids = @ \cup {id}]
           /\ added' = [added EXCEPT ![p] = Append(@, id)]
           /\ alerted' = alerted \cup {id}
           /\ realerted' = realerted \cup ({id} \cap alerted)
    /\ pc' = [pc EXCEPT ![p] = "sleep"]
    /\ UNCHANGED <<watchlist, CHAT_ID, news, file, stocks, idx, remaining, entry,
                   initial_count, elapsed, runs_left>>

(* line 127: time.sleep(1.5), then the next entry *)
Sleep(p) ==
    /\ pc[p] = "sleep"
    /\ elapsed' = [elapsed EXCEPT ![p] = @ + SleepTicks]
    /\ pc' = [pc EXCEPT ![p] = "items"]
    /\ entry' = [entry EXCEPT ![p] = NoEntry]
    /\ out' = Step("slept", p)
    /\ UNCHANGED <<watchlist, CHAT_ID, news, file, stocks, idx, remaining,
                   seen_news, initial_count, added, alerted, realerted, runs_left>>

(* lines 129-133: save if the set grew *)
Finish(p) ==
    /\ pc[p] = "end"
    /\ IF Size(seen_news[p]) > initial_count[p]
       THEN /\ file' \in save_memory(seen_news[p])
            /\ out' = Step("saved", p)
       ELSE /\ file' = file
            /\ out' = Step("nothing_to_save", p)
    /\ pc' = [pc EXCEPT ![p] = "done"]
    /\ UNCHANGED <<watchlist, CHAT_ID, news, stocks, idx, remaining, entry, seen_news,
                   initial_count, elapsed, added, alerted, realerted, runs_left>>

Next ==
    \E p \in Procs :
        \/ Start(p)
        \/ Exhausted(p)
        \/ TimeLimitReached(p)
        \/ FetchFailed(p)
        \/ NoNews(p)
        \/ FetchEntries(p)
        \/ NextStock(p)
        \/ NextEntry(p)
        \/ EntryRaises(p)
        \/ SkipOld(p)
        \/ SkipSeen(p)
        \/ Process(p)
        \/ Sleep(p)
        \/ Finish(p)

Spec == Init /\ [][Next]_vars

(* --------------------------- the two senders --------------------------- *)
(* instant_analyst.send_telegram: the message goes out in chunks of        *)
(* chunk_size characters; a chunk the API answers with a status other      *)
(* than 200 is posted again with parse_mode "".  A message is given by     *)
(* its length len and a chunk message[lo:hi] by its two ends;              *)
(* results[c] holds the outcome of chunk c's Markdown post and of its      *)
(* second post.                                                            *)
Slice(len, lo, hi) == [lo |-> Min(lo, len), hi |-> Min(hi, len)]

(* range(0, len(message), chunk_size) *)
ChunkStarts(len) == {i \in 0..len : i < len /\ i % chunk_size = 0}

RECURSIVE analyst_posts(_, _, _, _)
analyst_posts(chat_id, len, results, i) ==
    IF i >= len THEN <<>>
    ELSE LET chunk == Slice(len, i, i + chunk_size)
             r == results[(i \div chunk_size) + 1]
             first == [chat_id |-> chat_id, text |-> chunk,
                       parse_mode |-> "Markdown", result |-> r.first]
             second == [chat_id |-> chat_id, text |-> chunk,
                        parse_mode |-> "", result |-> r.second]
         IN  (IF r.first \notin {"200", "raised"} THEN <<first, second>> ELSE <<first>>)
             \o analyst_posts(chat_id, len, results, i + chunk_size)

analyst_send_telegram(chat_id, len, results) ==
    analyst_posts(chat_id, len, results, 0)

MessageLengths == {0, 1, chunk_size, chunk_size + 1}

Messages ==
    {Message(s, v, e) : s \in {TCS, INFY},
                        v \in {Sentinel} \cup {r.text : r \in {x \in ApiReplies : ~x.raised}},
                        e \in {x \in Entries : x.has_title /\ x.has_link /\ x.published = Absent}}

(* trader_bot.send_telegram(message) *)
TraderSend ==
    /\ \E message \in Messages, results \in [1..Len(split(CHAT_ID)) -> PostResults] :
          out' = [Step("trader_send", 0) EXCEPT !.posts = send_telegram(message, results)]
    /\ UNCHANGED <<watchlist, CHAT_ID, news, file, pc, stocks, idx, remaining, entry,
                   seen_news, initial_count, elapsed, added, alerted, realerted,
                   runs_left>>

(* instant_analyst.send_telegram(chat_id, message) *)
AnalystSend ==
    /\ \E len \in MessageLengths :
          \E results \in [1..Cardinality(ChunkStarts(len)) ->
                              [first : PostResults, second : PostResults]] :
              /\ \A c \in DOMAIN results :
                    results[c].first \in {"200", "raised"} => results[c].second = "200"
              /\ out' = [Step("analyst_send", 0) EXCEPT
                            !.posts = analyst_send_telegram(<<"1">>, len, results)]
    /\ UNCHANGED <<watchlist, CHAT_ID, news, file, pc, stocks, idx, remaining, entry,
                   seen_news, initial_count, elapsed, added, alerted, realerted,
                   runs_left>>

NextSend == TraderSend \/ AnalystSend

(* the senders depend on CHAT_ID alone *)
InitSend ==
    /\ Init
    /\ watchlist = <<>>
    /\ ~file.ok

SpecSend == InitSend /\ [][NextSend]_vars

(* Two scheduled runs that may overlap.  The feed returns one headline,   *)
(* with or without a usable timestamp, or an entry without a title.       *)
OverlapNews ==
    {e \in Entries : /\ e.has_link
                     /\ e.title \in {ShortTitle, <<>>}
                     /\ e.published \in {Absent, MaxAgeHours * 3600 + 1}}

InitOverlap ==
    /\ watchlist = <<TCS, Blank, INFY>>
    /\ CHAT_ID = <<"1">>
    /\ news = OverlapNews
    /\ file = [ok |-> TRUE, pad |-> 0, ids |-> {}]
    /\ pc = [p \in Procs |-> "idle"]
    /\ stocks = [p \in Procs |-> <<>>]
    /\ idx = [p \in Procs |-> 1]
    /\ remaining = [p \in Procs |-> 0]
    /\ entry = [p \in Procs |-> NoEntry]
    /\ seen_news = [p \in Procs |-> EmptyMemory]
    /\ initial_count = [p \in Procs |-> 0]
    /\ elapsed = [p \in Procs |-> 0]
    /\ added = [p \in Procs |-> <<>>]
    /\ alerted = {}
    /\ realerted = {}
    /\ runs_left = MaxRuns + 1
    /\ out = NoOut

SpecOverlap == InitOverlap /\ [][Next]_vars

(* ============================== properties ============================== *)
Moves(p) == pc'[p] # pc[p]

EntryId(p) == news_id(stocks[p][idx[p]], entry[p].title)

FilePart(m) == [ok |-> TRUE, pad |-> m.pad, ids |-> m.ids]

(* C1: an entry whose fingerprint is in the seen-set when the loop examines *)
(* it, loaded from the file or added earlier in the run, causes no call of  *)
(* the generation API and no message.                                       *)
SeenEntryCostsNothing ==
    [][\A p \in Procs :
          (/\ pc[p] = "entry"
           /\ Moves(p)
           /\ entry[p].has_title
           /\ EntryId(p) \in seen_news[p].ids)
          => (/\ ~out'.api_called
              /\ out'.posts = <<>>
              /\ alerted' = alerted)]_vars

(* a duplicate found through the memory file: nothing was added in this run *)
SeenFromFileSkipped ==
    /\ out.kind = "skip_seen"
    /\ added[out.proc] = <<>>
    /\ Size(seen_news[out.proc]) = MemoryLimit

(* C2: whatever raises while a feed is fetched or an entry handled is       *)
(* caught: no run of check_market_news aborts before its save step.         *)
ScanNeverAborts == \A p \in Procs : pc[p] # "crashed"

(* C3: once the time limit is exceeded at the top of the outer loop the     *)
(* run fetches and handles nothing more, and the fingerprints it added are  *)
(* in the memory file it leaves.                                            *)
BudgetCutKeepsResults ==
    [][\A p \in Procs :
          /\ (/\ pc[p] = "loop"
              /\ idx[p] <= Len(stocks[p])
              /\ elapsed[p] > TimeLimit * TicksPerSecond
              /\ Moves(p))
             => (/\ pc'[p] = "end"
                 /\ ~out'.api_called
                 /\ out'.posts = <<>>
                 /\ added'[p] = added[p])
          /\ (/\ pc[p] = "end"
              /\ idx[p] <= Len(stocks[p])
              /\ Moves(p))
             => (/\ pc'[p] = "done"
                 /\ Range(added[p]) \subseteq file'.ids)]_vars

(* C4: trader_bot.send_telegram posts once per id of the comma-separated    *)
(* list, in the order of the list, whatever the earlier posts came to.      *)
Commas(s) == Cardinality({k \in 1..Len(s) : s[k] = ","})

OnePostPerRecipient ==
    out.kind = "trader_send"
    => /\ Len(out.posts) = Commas(CHAT_ID) + 1
       /\ \A k \in 1..Len(out.posts) :
             /\ out.posts[k].chat_id = strip(split(CHAT_ID)[k])
             /\ out.posts[k].parse_mode = "Markdown"

(* the first of two recipients fails and the second is still tried *)
SecondTriedAfterFailure ==
    /\ out.kind = "trader_send"
    /\ Len(out.posts) = 2
    /\ out.posts[1].result = "raised"
    /\ out.posts[2].chat_id = <<"2">>

(* C5: what save_memory writes is the set itself when it holds at most      *)
(* MemoryLimit fingerprints, and otherwise the MemoryLimit newest ones, so  *)
(* that the fingerprints the run has just added are all kept.               *)
SaveKeepsNewest ==
    [][\A p \in Procs :
          (/\ pc[p] = "end"
           /\ Moves(p)
           /\ Size(seen_news[p]) > initial_count[p])
          => IF Size(seen_news[p]) <= MemoryLimit
             THEN file' = FilePart(seen_news[p])
             ELSE /\ file'.ok
                  /\ Size(file') = MemoryLimit
                  /\ file'.ids \subseteq seen_news[p].ids
                  /\ Range(added[p]) \subseteq file'.ids]_vars

(* C6: an entry that passes the age and the duplicate check has its         *)
(* fingerprint in the seen-set, delivered or not, and in the memory file    *)
(* the run writes when it ends normally.                                    *)
ProcessedIsSaved ==
    [][\A p \in Procs :
          /\ (pc[p] = "entry" /\ pc'[p] = "sleep")
             => EntryId(p) \in seen_news'[p].ids
          /\ (pc[p] = "end" /\ pc'[p] = "done")
             => \A id \in Range(added[p]) : file'.ok /\ id \in file'.ids]_vars

FallbackOnEverySend ==
    out.kind \in {"trader_send", "analyst_send"}
    => \A k \in 1..Len(out.posts) :
          (out.posts[k].parse_mode = "Markdown" /\ out.posts[k].result = "400")
          => /\ k < Len(out.posts)
             /\ out.posts[k + 1].parse_mode = ""
             /\ out.posts[k + 1].chat_id = out.posts[k].chat_id
             /\ out.posts[k + 1].text = out.posts[k].text

(* C9: when the generation API raises, the verdict is the sentinel, the     *)
(* alert goes out with it, the fingerprint is remembered and the run goes   *)
(* on to its sleep and its next entry.                                      *)
ApiFailureGivesSentinel ==
    (out.kind = "processed" /\ out.api_raised)
    => /\ out.verdict = "Signal: HOLD | Confidence: Low | Why: Error"
       /\ out.posts # <<>>
       /\ \A k \in 1..Len(out.posts) : out.posts[k].text.verdict = out.verdict
       /\ pc[out.proc] = "sleep"
       /\ EntryId(out.proc) \in seen_news[out.proc].ids

(* the API raised for an entry that was not the last of its feed *)
ApiFailedMidFeed ==
    /\ out.kind = "processed"
    /\ out.api_raised
    /\ remaining[out.proc] > 0

(* C10: a save writes the saving run's own set, whatever the file holds by  *)
(* then, and a run alerts on every fresh entry that is not in its set; so   *)
(* what another run saved in between is lost and can be alerted on again.   *)
SaveIgnoresTheFile ==
    [][\A p \in Procs :
          /\ (/\ pc[p] = "end"
              /\ Moves(p)
              /\ Size(seen_news[p]) > initial_count[p]
              /\ Size(seen_news[p]) <= MemoryLimit)
             => file' = FilePart(seen_news[p])
          /\ (/\ pc[p] = "entry"
              /\ Moves(p)
              /\ entry[p].has_title /\ entry[p].has_link
              /\ \/ entry[p].published = Absent
                 \/ /\ entry[p].published >= 0
                    /\ entry[p].published <= MaxAgeHours * 3600
              /\ EntryId(p) \notin seen_news[p].ids)
             => (/\ out'.kind = "processed"
                 /\ out'.posts # <<>>
                 /\ EntryId(p) \in alerted')]_vars

(* both runs loaded the empty file, both added a fingerprint and saved,   *)
(* and the file lacks one that was added and alerted on                    *)
LostUpdate ==
    \E p \in Procs : \E q \in Procs \ {p} :
        /\ pc[p] = "done" /\ pc[q] = "done"
        /\ initial_count[p] = 0 /\ initial_count[q] = 0
        /\ added[p] # <<>> /\ added[q] # <<>>
        /\ file = FilePart(seen_news[q])
        /\ \E id \in Range(added[p]) : id \in alerted /\ id \notin file.ids

====
